---- MODULE Spec2Model ----
(***************************************************************************)
(* Playback scheduler of the DTX player (src/playground/dtx_player.py,     *)
(* Player.play): master clock, note dispatch, choke and polyphony tables,  *)
(* seek and volume commands, end-of-chart detection.                       *)
(*                                                                         *)
(* Times are integer milliseconds.  note_index is 0-based as in the code:  *)
(* notes_to_play[note_index] of the code is notes_to_play[note_index + 1]  *)
(* here.  Volumes are kept in tenths (0.7 is 7), the sample volume in      *)
(* tenths x percent.                                                       *)
(***************************************************************************)
EXTENDS Integers, Sequences, FiniteSets, TLC

\* ------------------------------------------------------------ bounds
\* Wall-clock steps of StepMs the model lets pass.
MaxSteps == 3
\* Longest chart with freely mixed channels.
MaxNotes == 2
\* Longest chart with all notes on one channel (a roll).
MaxRoll == 6
\* Mixer channels of the audio subsystem (the code allocates 64).
NumMixer == 5
\* Volume key presses in one run.
MaxVolKeys == 1
\* Longest chart file, in lines.
MaxLines == 3

\* Longest chart file of the encoding specification, in lines.
MaxReadLines == 2
\* Volume key presses in one run of the volume specification.
MaxPresses == 8
\* Longest chart of the hi-hat and snare charts.
MaxKit == 3

\* ------------------------------------------------------------ program constants
POLYPHONY_LIMIT == 4
JUMP_AMOUNT_MS == 5000
\* One wall-clock step of the model: a fifth of the jump.
StepMs == JUMP_AMOUNT_MS \div 5
PAD_MS == 3000
NO_JUMP == -1

\* The chart time up to which the model follows jumps to the right (a chart
\* without notes has no upper clamp).
HorizonMs == MaxSteps * StepMs + JUMP_AMOUNT_MS

\* CHOKE_MAP: choker channel -> choked channels.
CHOKE_MAP == [c \in {"11", "1B"} |-> {"18"}]

CHOKEABLE_CHANNELS == UNION {CHOKE_MAP[c] : c \in DOMAIN CHOKE_MAP}

\* ------------------------------------------------------------ inputs
\* Drum channels the charts of the model use: closed hi-hat, snare,
\* open hi-hat, pedal hi-hat.
Channels == {"11", "12", "18", "1B"}

\* Python compares the channel strings of equal-time notes; their order,
\* over the channels the charts of the model use.
ChanRank(c) ==
  CASE c = "01" -> 1 [] c = "02" -> 2 [] c = "03" -> 3 [] c = "04" -> 4
    [] c = "08" -> 5 [] c = "11" -> 6 [] c = "12" -> 7 [] c = "18" -> 8
    [] c = "1B" -> 9

\* The sample each channel's notes name in the charts of the model.
WavOf(c) == CASE c = "11" -> "0A" [] c = "12" -> "0B" [] c = "18" -> "0C" [] c = "1B" -> "0D"

Wavs == {WavOf(c) : c \in Channels}

\* Which samples load_sounds managed to load: the file of "0D" is missing.
SoundSets == {Wavs \ {"0D"}}

\* dtx.wav_volumes, percent; an absent id is 100.
wav_volumes == [w \in {"0C"} |-> 50]

WavVolPercent(w) == IF w \in DOMAIN wav_volumes THEN wav_volumes[w] ELSE 100

\* dtx.bgm_start_time_ms values of the model.
BgmStarts == {2999}

\* The channels of the freely mixed charts: a choker with a loaded sample,
\* the choked channel, a choker whose sample is missing.
ChartChannels == {"11", "18", "1B"}

\* Distances between consecutive notes: in the mixed charts, in the rolls.
Gaps == {0, 3 * StepMs}
RollGaps == {0, StepMs}

MkNotes(chs, gap) ==
  [i \in 1..Len(chs) |-> <<(i - 1) * gap, chs[i], WavOf(chs[i])>>]

\* Tuple order of (time, channel, value), as list.sort() orders timed_notes.
NoteLeq(a, b) ==
  \/ a[1] < b[1]
  \/ a[1] = b[1] /\ ChanRank(a[2]) <= ChanRank(b[2])

IsSortedNotes(ns) == \A i \in 1..(Len(ns) - 1) : NoteLeq(ns[i], ns[i + 1])

\* Charts of up to MaxNotes notes on freely mixed channels.
Charts ==
  { ns \in { MkNotes(chs, gap) :
               chs \in UNION { [1..n -> ChartChannels] : n \in 0..MaxNotes }, gap \in Gaps } :
      IsSortedNotes(ns) }

\* The channels of the rolls: the snare and the open hi-hat.
RollChannels == {"12", "18"}

\* Charts of up to MaxRoll notes on one channel.
Rolls ==
  { MkNotes([i \in 1..n |-> c], gap) :
      n \in 1..MaxRoll, c \in RollChannels, gap \in RollGaps }

\* ------------------------------------------------------------ state
VARIABLES
  notes_to_play,         \* dtx.timed_notes[:]
  sounds,                \* ids of the loaded samples (keys of self.sounds)
  bgm_path,              \* TRUE when a background track is loaded
  bgm_start_time_ms,     \* dtx.bgm_start_time_ms
  song_duration_ms,
  note_index,
  time_offset_ms,
  clock_is_audio_driven,
  start_ticks,
  current_time_ms,
  running,
  pc,                    \* "events", "dispatch", "exited"
  active_poly_sounds,    \* channel -> sequence of <<mixer channel, play time>>
  active_choke_sounds,   \* channel -> mixer channel
  bgm_volume,
  se_volume,
  sound_volume,          \* volume set on each Sound object
  ticks,                 \* pygame.time.get_ticks()
  music_busy,            \* pygame.mixer.music.get_busy()
  music_pos,             \* pygame.mixer.music.get_pos()
  mixer,                 \* the mixer channels
  vol_keys,              \* volume key presses the run still takes
  finished,              \* the finish check ended the loop
  seeks,                 \* the seeks executed since the last other step
  popped,                \* note indices popped in the current tick
  faded,                 \* fade-outs issued by the last fired note
  file,                  \* the chart file: what each candidate encoding decodes it to
  dtx,                   \* the fields of the Dtx object
  parse                  \* the locals of Dtx.parse and the position of main

parser_vars == <<file, dtx, parse>>
chart_vars == <<notes_to_play, sounds, bgm_path, bgm_start_time_ms, song_duration_ms,
                parser_vars>>
clock_vars == <<time_offset_ms, clock_is_audio_driven, start_ticks, current_time_ms>>
voice_vars == <<active_poly_sounds, active_choke_sounds, mixer, sound_volume>>
volume_vars == <<bgm_volume, se_volume, vol_keys>>
music_vars == <<music_busy, music_pos>>
vars == <<chart_vars, clock_vars, voice_vars, volume_vars, music_vars,
          note_index, running, pc, ticks, finished, seeks, popped, faded>>

\* ------------------------------------------------------------ helpers
Idle == [busy |-> FALSE, channel |-> "", wav |-> "", note |-> -1, fading |-> FALSE]

MixerChannels == 1..NumMixer

\* Channel.get_busy()
GetBusy(mx, h) == mx[h].busy

\* Channel.fadeout(): the voice keeps sounding until the fade is over.
Fadeout(mx, h) == IF mx[h].busy THEN [mx EXCEPT ![h].fading = TRUE] ELSE mx

\* Sound.play(): the first free mixer channel, 0 (None) when all are busy.
FreeChannel(mx) ==
  IF \E h \in MixerChannels : ~mx[h].busy
  THEN CHOOSE h \in MixerChannels :
         ~mx[h].busy /\ \A g \in MixerChannels : ~mx[g].busy => h <= g
  ELSE 0

Max(a, b) == IF a >= b THEN a ELSE b
Min(a, b) == IF a <= b THEN a ELSE b

\* Line 578-580.
SongDuration(ns) == IF Len(ns) > 0 THEN ns[Len(ns)][1] + PAD_MS ELSE 0

\* ------------------------------------------------------------ the Dtx object
\* Dtx.__init__, lines 54-68: the fields the parser fills, at their defaults.
DtxNew ==
  [bpm |-> 120,
   bpm_changes |-> <<>>,
   bar_length_changes |-> <<>>,
   wav_volumes |-> <<>>,
   bgm_start_time_ms |-> 0,
   timed_notes |-> <<>>]

\* The locals of Dtx.parse (lines 95-102, 221-250) with main at position p;
\* stamps records the time the walk gave each event.
Frame(p) ==
  [pc |-> p,
   content |-> <<>>,
   best_encoding |-> "",
   max_command_lines |-> 0,
   raw_events |-> <<>>,
   bar_start_beats |-> <<>>,
   current_bpm |-> 0,
   stamps |-> <<>>]

\* The chart file once the parser is done with it.
Closed == "closed"

\* ------------------------------------------------------------ initial state
\* The state at line 605: the chart is parsed, the samples are loaded, the
\* background track (if any) has been started.  play() returns at line 564
\* when neither a sample nor a background track was loaded.
InitWith(charts, volume_keys) ==
  /\ notes_to_play \in charts
  /\ sounds \in SoundSets
  /\ bgm_path \in BOOLEAN
  /\ bgm_start_time_ms \in (IF bgm_path THEN BgmStarts ELSE {0})
  /\ sounds # {} \/ bgm_path
  /\ song_duration_ms = SongDuration(notes_to_play)
  /\ note_index = 0
  /\ time_offset_ms = bgm_start_time_ms
  \* music.play() may raise: the clock is then timer-driven from the outset.
  /\ clock_is_audio_driven \in (IF bgm_path THEN BOOLEAN ELSE {FALSE})
  /\ music_busy = clock_is_audio_driven
  /\ music_pos = 0
  /\ ticks = 0
  /\ start_ticks = ticks
  /\ current_time_ms = 0
  /\ running = TRUE
  /\ pc = "events"
  /\ active_poly_sounds = <<>>
  /\ active_choke_sounds = <<>>
  /\ bgm_volume = 7
  /\ se_volume = 10
  /\ sound_volume = [w \in sounds |-> 10 * 100]
  /\ mixer = [h \in MixerChannels |-> Idle]
  /\ vol_keys = volume_keys
  /\ finished = FALSE
  /\ seeks = <<>>
  /\ popped = <<>>
  /\ faded = {}
  \* main, lines 853-858: the chart was parsed before the player was made.
  /\ file = Closed
  /\ dtx = [DtxNew EXCEPT !.timed_notes = notes_to_play,
                          !.bgm_start_time_ms = bgm_start_time_ms,
                          !.wav_volumes = wav_volumes]
  /\ parse = Frame("play")

\* ------------------------------------------------------------ the audio subsystem and the wall clock
\* Wall-clock time passes; a playing background track advances with it.
Advance ==
  /\ pc = "events"
  /\ ticks < MaxSteps * StepMs
  /\ ticks' = ticks + StepMs
  /\ music_pos' = IF music_busy THEN music_pos + StepMs ELSE music_pos
  /\ seeks' = <<>>
  /\ faded' = {}
  /\ UNCHANGED <<chart_vars, clock_vars, voice_vars, volume_vars, music_busy,
                 note_index, running, pc, finished, popped>>

\* The background track reaches its end (or the device drops it).
MusicEnds ==
  /\ pc # "exited"
  /\ music_busy
  /\ music_busy' = FALSE
  /\ seeks' = <<>>
  /\ faded' = {}
  /\ UNCHANGED <<chart_vars, clock_vars, voice_vars, volume_vars, music_pos,
                 note_index, running, pc, ticks, finished, popped>>

\* A voice ends, by itself or at the end of its fade-out: its mixer channel
\* is free again.
VoiceFinishes(h) ==
  /\ pc = "events"
  /\ mixer[h].busy
  /\ mixer' = [mixer EXCEPT ![h] = Idle]
  /\ seeks' = <<>>
  /\ faded' = {}
  /\ UNCHANGED <<chart_vars, clock_vars, active_poly_sounds, active_choke_sounds,
                 sound_volume, volume_vars, music_vars,
                 note_index, running, pc, ticks, finished, popped>>

\* ------------------------------------------------------------ the event handler
\* Lines 633-638: the current time as the key handler computes it.
HandlerTime ==
  IF clock_is_audio_driven /\ music_busy
  THEN music_pos + time_offset_ms
  ELSE ticks - start_ticks

\* Lines 642-645: -1 stands for "no jump".
JumpTarget(key, cur) ==
  IF key = "RIGHT" THEN cur + JUMP_AMOUNT_MS
  ELSE IF key = "LEFT" THEN cur - JUMP_AMOUNT_MS
  ELSE NO_JUMP

\* ClampTarget without the upper clamp.
ClampTargetLower(t, duration) == Max(0, t)

\* Lines 649-651: the upper clamp is applied only when the duration is positive.
ClampTarget(t, duration) ==
  IF duration > 0 THEN Min(Max(0, t), duration) ELSE Max(0, t)

\* FindNoteIndex with > for >=.
RECURSIVE FindNoteIndexAfter(_, _, _)
FindNoteIndexAfter(ns, new_time_ms, i) ==
  IF i >= Len(ns) THEN Len(ns)
  ELSE IF ns[i + 1][1] > new_time_ms THEN i
  ELSE FindNoteIndexAfter(ns, new_time_ms, i + 1)

\* FindNoteIndex without the else branch of the for loop: note_index stays 0.
RECURSIVE FindNoteIndexNoElse(_, _, _)
FindNoteIndexNoElse(ns, new_time_ms, i) ==
  IF i >= Len(ns) THEN 0
  ELSE IF ns[i + 1][1] >= new_time_ms THEN i
  ELSE FindNoteIndexNoElse(ns, new_time_ms, i + 1)

\* Lines 672-678: the first index whose note is at or after new_time_ms,
\* the length of the sequence when there is none.
RECURSIVE FindNoteIndex(_, _, _)
FindNoteIndex(ns, new_time_ms, i) ==
  IF i >= Len(ns) THEN Len(ns)
  ELSE IF ns[i + 1][1] >= new_time_ms THEN i
  ELSE FindNoteIndex(ns, new_time_ms, i + 1)

\* A seek that leaves the voices sounding.
StopNone(mx) == mx

\* Line 681: pygame.mixer.stop().
StopAll(mx) == [h \in MixerChannels |-> Idle]

\* A seek that restarts the background track whenever one is loaded and hands
\* the clock back to it.
SeekPromoting(cur, target) ==
  LET new_time_ms == ClampTarget(target, song_duration_ms) IN
  /\ start_ticks' = ticks - new_time_ms
  /\ IF bgm_path
     THEN /\ time_offset_ms' = new_time_ms
          /\ music_busy' = TRUE
          /\ music_pos' = 0
          /\ clock_is_audio_driven' = TRUE
     ELSE UNCHANGED <<time_offset_ms, music_vars, clock_is_audio_driven>>
  /\ note_index' = FindNoteIndex(notes_to_play, new_time_ms, 0)
  /\ mixer' = StopAll(mixer)
  /\ active_poly_sounds' = <<>>
  /\ active_choke_sounds' = <<>>
  /\ seeks' = (IF Len(seeks) >= 2 THEN Tail(seeks) ELSE seeks)
                \o <<[cur |-> cur, target |-> new_time_ms, cursor |-> note_index,
                      voices |-> {h \in MixerChannels : mixer[h].busy},
                      poly |-> DOMAIN active_poly_sounds,
                      choke |-> DOMAIN active_choke_sounds]>>
  /\ UNCHANGED sound_volume

\* Lines 647-686: the seek itself, to the clamped target.
Seek(cur, target) ==
  LET new_time_ms == ClampTarget(target, song_duration_ms) IN
  /\ start_ticks' = ticks - new_time_ms
  /\ IF clock_is_audio_driven
     THEN /\ time_offset_ms' = new_time_ms
          \* music.fadeout(), then music.play(start = ...): the position
          \* get_pos() reports starts again at 0.
          /\ music_busy' = TRUE
          /\ music_pos' = 0
     ELSE UNCHANGED <<time_offset_ms, music_vars>>
  /\ note_index' = FindNoteIndex(notes_to_play, new_time_ms, 0)
  \* pygame.mixer.stop() and the two clear() calls.
  /\ mixer' = StopAll(mixer)
  /\ active_poly_sounds' = <<>>
  /\ active_choke_sounds' = <<>>
  /\ seeks' = (IF Len(seeks) >= 2 THEN Tail(seeks) ELSE seeks)
                \o <<[cur |-> cur, target |-> new_time_ms, cursor |-> note_index,
                      voices |-> {h \in MixerChannels : mixer[h].busy},
                      poly |-> DOMAIN active_poly_sounds,
                      choke |-> DOMAIN active_choke_sounds]>>
  /\ UNCHANGED <<clock_is_audio_driven, sound_volume>>

\* The four volume keys without min and max.
VolumeKeyUnclamped(key) ==
  /\ bgm_volume' = (IF key = "UP" THEN bgm_volume + 1
                    ELSE IF key = "DOWN" THEN bgm_volume - 1
                    ELSE bgm_volume)
  /\ se_volume' = (IF key = "PAGEUP" THEN se_volume + 1
                   ELSE IF key = "PAGEDOWN" THEN se_volume - 1
                   ELSE se_volume)

\* Lines 618-630: the four volume keys.
VolumeKey(key) ==
  /\ bgm_volume' = (IF key = "UP" THEN Min(10, bgm_volume + 1)
                    ELSE IF key = "DOWN" THEN Max(0, bgm_volume - 1)
                    ELSE bgm_volume)
  /\ se_volume' = (IF key = "PAGEUP" THEN Min(10, se_volume + 1)
                   ELSE IF key = "PAGEDOWN" THEN Max(0, se_volume - 1)
                   ELSE se_volume)

VolumeKeys == {"UP", "DOWN", "PAGEUP", "PAGEDOWN"}
SeekKeys == {"LEFT", "RIGHT"}

\* Lines 616-686: one KEYDOWN event.
KeyDown(key) ==
  /\ pc = "events"
  /\ key \in VolumeKeys => vol_keys > 0
  /\ key = "RIGHT" => HandlerTime <= HorizonMs
  /\ VolumeKey(key)
  /\ vol_keys' = IF key \in VolumeKeys THEN vol_keys - 1 ELSE vol_keys
  /\ LET cur == HandlerTime
         target == JumpTarget(key, cur) IN
     /\ UNCHANGED current_time_ms
     /\ IF target # NO_JUMP
        THEN Seek(cur, target)
        ELSE /\ seeks' = <<>>
             /\ UNCHANGED <<time_offset_ms, clock_is_audio_driven, start_ticks,
                            voice_vars, music_vars, note_index>>
  /\ faded' = {}
  /\ UNCHANGED <<chart_vars, running, pc, ticks, finished, popped>>

\* Lines 610-613: QUIT or ESCAPE; the rest of the loop body still runs once.
Quit ==
  /\ pc = "events"
  /\ running
  /\ running' = FALSE
  /\ seeks' = <<>>
  /\ faded' = {}
  /\ UNCHANGED <<chart_vars, clock_vars, voice_vars, volume_vars, music_vars,
                 note_index, pc, ticks, finished, popped>>

\* ------------------------------------------------------------ the tick
\* The master clock without the demotion: once the track has stopped the
\* audio-driven clock stays at the last position of the track.
UpdateClockStuck ==
  /\ pc = "events"
  /\ current_time_ms' = (IF clock_is_audio_driven
                         THEN music_pos + time_offset_ms
                         ELSE ticks - start_ticks)
  /\ pc' = "dispatch"
  /\ seeks' = <<>>
  /\ faded' = {}
  /\ UNCHANGED <<chart_vars, time_offset_ms, clock_is_audio_driven, start_ticks,
                 voice_vars, volume_vars, music_vars,
                 note_index, running, ticks, finished, popped>>

\* Lines 688-699: the master clock; the demotion to the timer happens here.
UpdateClock ==
  /\ pc = "events"
  /\ IF clock_is_audio_driven /\ music_busy
     THEN /\ current_time_ms' = music_pos + time_offset_ms
          /\ UNCHANGED <<clock_is_audio_driven, start_ticks>>
     ELSE /\ clock_is_audio_driven' = FALSE
          /\ start_ticks' = (IF clock_is_audio_driven
                             THEN ticks - song_duration_ms
                             ELSE start_ticks)
          /\ current_time_ms' = ticks - start_ticks'
  /\ pc' = "dispatch"
  /\ seeks' = <<>>
  /\ faded' = {}
  /\ UNCHANGED <<chart_vars, time_offset_ms, voice_vars, volume_vars, music_vars,
                 note_index, running, ticks, finished, popped>>

\* NoteDue with < for <=.
NoteDueStrict ==
  /\ note_index < Len(notes_to_play)
  /\ notes_to_play[note_index + 1][1] < current_time_ms

\* Lines 702-705: the condition of the dispatch loop.
NoteDue ==
  /\ note_index < Len(notes_to_play)
  /\ notes_to_play[note_index + 1][1] <= current_time_ms

\* Choke that fades the voice out and keeps its entry.
ChokeKeepEntry(channel_id, mx, choke) ==
  IF channel_id \in DOMAIN CHOKE_MAP
  THEN LET hit == {c \in CHOKE_MAP[channel_id] : c \in DOMAIN choke}
           stop == {choke[c] : c \in {d \in hit : GetBusy(mx, choke[d])}}
       IN [mixer |-> [h \in MixerChannels |->
                        IF h \in stop THEN [mx[h] EXCEPT !.fading = TRUE] ELSE mx[h]],
           choke |-> choke,
           stopped |-> stop]
  ELSE [mixer |-> mx, choke |-> choke, stopped |-> {}]

\* Lines 712-721: the choke step of a note on channel_id.  The result is the
\* mixer, the choke table and the mixer channels that got a fade-out.
Choke(channel_id, mx, choke) ==
  IF channel_id \in DOMAIN CHOKE_MAP
  THEN LET hit == {c \in CHOKE_MAP[channel_id] : c \in DOMAIN choke}
           stop == {choke[c] : c \in {d \in hit : GetBusy(mx, choke[d])}}
       IN [mixer |-> [h \in MixerChannels |->
                        IF h \in stop THEN [mx[h] EXCEPT !.fading = TRUE] ELSE mx[h]],
           choke |-> [c \in DOMAIN choke \ hit |-> choke[c]],
           stopped |-> stop]
  ELSE [mixer |-> mx, choke |-> choke, stopped |-> {}]

\* Lines 733-735: the tracked instances whose mixer channel is busy.
RECURSIVE StillBusy(_, _)
StillBusy(instances, mx) ==
  IF instances = <<>> THEN <<>>
  ELSE (IF GetBusy(mx, Head(instances)[1]) THEN <<Head(instances)>> ELSE <<>>)
         \o StillBusy(Tail(instances), mx)

\* Line 740: list.sort(key = play time), a stable sort.
RECURSIVE InsertByTime(_, _)
InsertByTime(item, sorted) ==
  IF sorted = <<>> THEN <<item>>
  ELSE IF item[2] < Head(sorted)[2] THEN <<item>> \o sorted
  ELSE <<Head(sorted)>> \o InsertByTime(item, Tail(sorted))

RECURSIVE SortByTime(_)
SortByTime(instances) ==
  IF instances = <<>> THEN <<>>
  ELSE InsertByTime(instances[Len(instances)],
                    SortByTime(SubSeq(instances, 1, Len(instances) - 1)))

\* Line 738 with > for >=.
AtLimitLate(instances) == Len(instances) > POLYPHONY_LIMIT

\* Line 738: the polyphony limit is reached.
AtLimit(instances) == Len(instances) >= POLYPHONY_LIMIT

\* Lines 737-744: voice stealing.  The result is the instances kept and the
\* mixer channel that gets the fade-out (0 when none does).
Steal(instances) ==
  IF AtLimit(instances)
  THEN LET sorted == SortByTime(instances)
       IN [kept |-> Tail(sorted), oldest |-> Head(sorted)[1]]
  ELSE [kept |-> instances, oldest |-> 0]

\* Lines 748-750: the volume of the new voice, in tenths x percent.
FinalVolume(wav_id) == se_volume * WavVolPercent(wav_id)

\* The playback volume of the voice on mixer channel h.  Line 754 sets the
\* volume on the Sound object and no volume is set on the mixer channel (line
\* 758-759): Sound.set_volume acts at once on every playing instance of the
\* Sound, so the voice sounds at the volume its Sound object has now.
PlaybackVolume(mx, sv, h) == sv[mx[h].wav]

\* A dispatch loop that forgets to advance.
NextNoteIndexStuck(i) == i

\* Line 776.
NextNoteIndex(i) == i + 1

\* Line 707 with every sample taken as loaded.
LoadedAlways(wav_id) == TRUE

\* Line 707: the sample of the note is loaded.
Loaded(wav_id) == wav_id \in sounds

\* Lines 706-776: one turn of the dispatch loop.
FireNote ==
  /\ pc = "dispatch"
  /\ NoteDue
  /\ LET note == notes_to_play[note_index + 1]
         channel_id == note[2]
         wav_id == note[3]
     IN IF Loaded(wav_id)
        THEN LET choked == Choke(channel_id, mixer, active_choke_sounds)
                 tracked == IF channel_id \in DOMAIN active_poly_sounds
                            THEN active_poly_sounds[channel_id] ELSE <<>>
                 playing == StillBusy(tracked, choked.mixer)
                 stolen == Steal(playing)
                 mx2 == IF stolen.oldest # 0
                        THEN Fadeout(choked.mixer, stolen.oldest)
                        ELSE choked.mixer
                 new_channel == FreeChannel(mx2)
                 voice == [busy |-> TRUE, channel |-> channel_id, wav |-> wav_id,
                           note |-> note_index, fading |-> FALSE]
             IN /\ sound_volume' = [sound_volume EXCEPT ![wav_id] = FinalVolume(wav_id)]
                /\ mixer' = IF new_channel # 0
                            THEN [mx2 EXCEPT ![new_channel] = voice]
                            ELSE mx2
                /\ active_poly_sounds' =
                     (channel_id :>
                        (IF new_channel # 0
                         THEN Append(stolen.kept, <<new_channel, current_time_ms>>)
                         ELSE stolen.kept))
                     @@ active_poly_sounds
                /\ active_choke_sounds' =
                     IF new_channel # 0 /\ channel_id \in CHOKEABLE_CHANNELS
                     THEN (channel_id :> new_channel) @@ choked.choke
                     ELSE choked.choke
                /\ faded' =
                     {[h |-> h, why |-> "choke", channel |-> mixer[h].channel,
                       note |-> mixer[h].note] : h \in choked.stopped}
                     \cup (IF stolen.oldest # 0
                           THEN {[h |-> stolen.oldest, why |-> "steal",
                                  channel |-> mixer[stolen.oldest].channel,
                                  note |-> mixer[stolen.oldest].note]}
                           ELSE {})
        ELSE /\ faded' = {}
             /\ UNCHANGED voice_vars
  /\ note_index' = NextNoteIndex(note_index)
  /\ popped' = Append(popped, note_index)
  /\ seeks' = <<>>
  /\ UNCHANGED <<chart_vars, clock_vars, volume_vars, music_vars,
                 running, pc, ticks, finished>>

\* The finish condition with "or" for "and".
PlaybackFinishedEither == note_index >= Len(notes_to_play) \/ ~music_busy

\* Line 780: the finish condition.
PlaybackFinished == note_index >= Len(notes_to_play) /\ ~music_busy

\* Lines 778-783 and the loop test of line 608: the end of one loop turn.
FinishCheck ==
  /\ pc = "dispatch"
  /\ ~NoteDue
  /\ finished' = PlaybackFinished
  /\ running' = (running /\ ~PlaybackFinished)
  /\ pc' = IF running' THEN "events" ELSE "exited"
  \* current_time_ms is written again before the next loop turn reads it
  \* (lines 634-638, 690, 699): between turns the model keeps it at 0.
  /\ current_time_ms' = 0
  /\ popped' = <<>>
  /\ seeks' = <<>>
  /\ faded' = {}
  /\ UNCHANGED <<chart_vars, time_offset_ms, clock_is_audio_driven, start_ticks,
                 voice_vars, volume_vars, music_vars, note_index, ticks>>

\* ------------------------------------------------------------ specification
Next ==
  \/ Advance
  \/ MusicEnds
  \/ \E h \in MixerChannels : VoiceFinishes(h)
  \/ \E key \in VolumeKeys \cup SeekKeys : KeyDown(key)
  \/ Quit
  \/ UpdateClock
  \/ FireNote
  \/ FinishCheck

Init == InitWith(Charts, MaxVolKeys)

Spec == Init /\ [][Next]_vars

\* The same scheduler on the rolls, with the volumes left alone.
InitRoll == InitWith(Rolls, 0)

SpecRoll == InitRoll /\ [][Next]_vars

\* Charts of up to MaxKit notes, one wall-clock step apart, on the closed
\* hi-hat, the snare and the open hi-hat.
KitChannels == {"11", "12", "18"}
KitCharts ==
  { MkNotes(chs, StepMs) : chs \in UNION { [1..n -> KitChannels] : n \in 1..MaxKit } }

\* The same scheduler on the hi-hat and snare charts, with the volumes left
\* alone.
InitKit == InitWith(KitCharts, 0)

SpecKit == InitKit /\ [][Next]_vars

\* The chart of the volume specification: one open hi-hat note.
VolumeCharts == {MkNotes(<<"18">>, 0)}

\* The same scheduler on one note, with MaxPresses volume key presses.
InitVolume == InitWith(VolumeCharts, MaxPresses)

SpecVolume == InitVolume /\ [][Next]_vars

\* Wall-clock time passes, with no last instant.  The program reads
\* get_ticks() only against start_ticks (lines 636, 657, 697, 699): once
\* ticks is at the cap of Advance the step moves start_ticks back instead of
\* ticks forward.  The step is followed while the current time is within
\* HorizonMs, which lies after every note and after the end of the song.
Elapse ==
  /\ pc = "events"
  /\ HandlerTime <= HorizonMs
  /\ IF ticks < MaxSteps * StepMs
     THEN /\ ticks' = ticks + StepMs
          /\ UNCHANGED start_ticks
     ELSE /\ start_ticks' = start_ticks - StepMs
          /\ UNCHANGED ticks
  /\ music_pos' = IF music_busy THEN music_pos + StepMs ELSE music_pos
  /\ seeks' = <<>>
  /\ faded' = {}
  /\ UNCHANGED <<chart_vars, time_offset_ms, clock_is_audio_driven, current_time_ms,
                 voice_vars, volume_vars, music_busy,
                 note_index, running, pc, finished, popped>>

NextLive ==
  \/ Elapse
  \/ MusicEnds
  \/ \E h \in MixerChannels : VoiceFinishes(h)
  \/ \E key \in SeekKeys : KeyDown(key)
  \/ Quit
  \/ UpdateClock
  \/ FireNote
  \/ FinishCheck

InitLive == InitWith(Charts, 0)

\* The scheduler with its progress assumptions.  The loop body is sequential
\* code (lines 608-783): the clock update, every turn of the dispatch loop
\* and the finish check are taken once they can be.  The wall clock moves on
\* between loop turns (clock.tick at the end of the body), and a background
\* track that is playing comes to its end.
SpecLive ==
  /\ InitLive
  /\ [][NextLive]_vars
  /\ WF_vars(UpdateClock)
  /\ WF_vars(FireNote)
  /\ WF_vars(FinishCheck)
  /\ SF_vars(Elapse)
  /\ WF_vars(MusicEnds)

\* ------------------------------------------------------------ the chart file
\* A decoded line, by the branch of lines 133-209 that takes it: "TEXT" does
\* not start with '#', "BPM" is the base tempo, "BPMX" an indexed tempo
\* (BPM + id), "VOLUME" a sample volume (VOLUME + id), "CHIP" a line whose
\* key is three digits and a channel; the value of a chip line is cut into
\* two-character tokens (line 194).
Line(kind, id, bar, channel, value, tokens) ==
  [kind |-> kind, id |-> id, bar |-> bar, channel |-> channel,
   value |-> value, tokens |-> tokens]

TextLine == Line("TEXT", "", 0, "", "", <<>>)
\* A line that starts with '#' and has a key no branch of lines 142-209
\* takes: a title, or a command read under the wrong encoding.
UnknownLine == Line("UNKNOWN", "", 0, "", "", <<>>)
BpmLine(value) == Line("BPM", "", 0, "", value, <<>>)
BpmxLine(id, value) == Line("BPMX", id, 0, "", value, <<>>)
VolumeLine(id, value) == Line("VOLUME", id, 0, "", value, <<>>)
BarLengthLine(bar, value) == Line("CHIP", "", bar, "02", value, <<>>)
ChipLine(bar, channel, tokens) == Line("CHIP", "", bar, channel, "", tokens)

\* Lines 25-37.
NON_NOTE_CHANNELS ==
  {"04", "07", "54", "5A", "C4", "C7",
   "55", "56", "57", "58", "59", "60",
   "D5", "D6", "D7", "D8", "D9", "DA", "DB", "DC", "DD", "DE", "DF",
   "50", "51", "C1", "C2",
   "61", "62", "63", "64", "65", "66", "67", "68", "69",
   "70", "71", "72", "73", "74", "75", "76", "77", "78", "79",
   "80", "81", "82", "83", "84", "85", "86", "87", "88", "89",
   "90", "91", "92"}

\* The channels the walk of lines 260-273 does not emit as notes, and the
\* bar-length channel of line 176.
CONTROL_CHANNELS == {"01", "02", "03", "08"}

\* float(value) over the numerals of the model's charts; a string outside the
\* domain ("abc") raises ValueError.  Every tempo of the model divides 60000
\* and every bar length is whole, so the float arithmetic of the code is
\* exact and integers carry it.
FloatOf ==
  ("0" :> 0) @@ ("1" :> 1) @@ ("2" :> 2) @@ ("60" :> 60) @@ ("120" :> 120)
  @@ ("240" :> 240) @@ ("-120" :> -120)

\* int(value): "50.5" and "abc" raise ValueError.
IntOf == ("0" :> 0) @@ ("50" :> 50)

\* int(value, 16) over the tokens of the model's charts; "ZZ" raises
\* ValueError.  "0" is the one-character token an odd-length value ends with.
HexOf ==
  ("0" :> 0) @@ ("01" :> 1) @@ ("0A" :> 10) @@ ("0B" :> 11) @@ ("3C" :> 60)
  @@ ("78" :> 120) @@ ("F0" :> 240)

\* The lines the charts of the model are made of.
LinePool ==
  {TextLine,
   BpmLine("240"), BpmLine("abc"), BpmLine("0"), BpmLine("-120"),
   BpmxLine("01", "60"), BpmxLine("01", "abc"),
   VolumeLine("0A", "50"), VolumeLine("0A", "50.5"),
   BarLengthLine(0, "2"), BarLengthLine(0, "0"), BarLengthLine(0, "abc"),
   ChipLine(0, "11", <<"0A", "0A", "0A", "0A">>),
   ChipLine(0, "12", <<"0B">>),
   ChipLine(1, "11", <<"0A">>),
   ChipLine(0, "03", <<"00", "F0">>),
   ChipLine(0, "03", <<"00", "0">>),
   ChipLine(0, "08", <<"00", "01">>),
   ChipLine(0, "01", <<"00", "00", "00", "01">>),
   ChipLine(1, "01", <<"01">>),
   ChipLine(0, "04", <<"01">>)}

\* Line 105.
Encodings == <<"cp932", "utf-16-le", "utf-8-sig", "utf-8">>

\* What open(...).readlines() gives under one encoding: the decoded lines, or
\* UnicodeDecodeError.
Decoded(lines) == [ok |-> TRUE, lines |-> lines]
UnicodeDecodeError == [ok |-> FALSE, lines |-> <<>>]

\* A file of plain ASCII text with an odd number of bytes: cp932, utf-8-sig
\* and utf-8 decode it to the same lines, utf-16-le does not decode it.
AsciiFile(lines) ==
  [e \in 1..Len(Encodings) |->
     IF Encodings[e] = "utf-16-le" THEN UnicodeDecodeError ELSE Decoded(lines)]

\* The texts of exactly n lines of a pool.
Texts(pool, n) == [1..n -> pool]

\* A file of plain ASCII text with an even number of bytes: utf-16-le decodes
\* it too, to one line of characters made of byte pairs, none of them '#'.
AsciiEvenFile(lines) ==
  [e \in 1..Len(Encodings) |->
     IF Encodings[e] = "utf-16-le"
     THEN Decoded(IF lines = <<>> THEN <<>> ELSE <<TextLine>>)
     ELSE Decoded(lines)]

\* UTF-16 text read byte by byte (cp932, utf-8-sig, utf-8): the NUL after each
\* newline heads the next line, so only the first line can start with '#',
\* its key is not one of the parser's, and a last line holds the final NUL.
Utf16AsBytes(lines) ==
  IF lines = <<>> THEN <<>>
  ELSE [i \in 1..(Len(lines) + 1) |->
          IF i = 1 /\ lines[1].kind # "TEXT" THEN UnknownLine ELSE TextLine]

\* A file of UTF-16 (little endian, no byte-order mark) text.
Utf16File(lines) ==
  [e \in 1..Len(Encodings) |->
     IF Encodings[e] = "utf-16-le" THEN Decoded(lines)
     ELSE Decoded(Utf16AsBytes(lines))]

\* UTF-8 text after a byte-order mark read as utf-8: the mark stays at the
\* head of the first line, which then does not start with '#'.
BehindMark(lines) ==
  [i \in 1..Len(lines) |-> IF i = 1 THEN TextLine ELSE lines[i]]

\* A file of UTF-8 text with a byte-order mark and an odd number of bytes:
\* cp932 and utf-16-le do not decode it.
Utf8MarkFile(lines) ==
  [e \in 1..Len(Encodings) |->
     CASE Encodings[e] = "utf-8-sig" -> Decoded(lines)
       [] Encodings[e] = "utf-8" -> Decoded(BehindMark(lines))
       [] OTHER -> UnicodeDecodeError]

\* A file no candidate decodes, such as the single byte 0x81.
Undecodable == [e \in 1..Len(Encodings) |-> UnicodeDecodeError]

\* The files of one text under the encodings of the model.
ReadFiles(lines) ==
  {AsciiFile(lines), AsciiEvenFile(lines), Utf16File(lines), Utf8MarkFile(lines)}

\* ------------------------------------------------------------ Dtx.parse, first pass
\* The variables of the player; the parser runs before the player is made.
player_vars ==
  <<notes_to_play, sounds, bgm_path, bgm_start_time_ms, song_duration_ms,
    clock_vars, voice_vars, volume_vars, music_vars,
    note_index, running, pc, ticks, finished, seeks, popped, faded>>

\* Line 111: the lines that start with '#' after trimming.
CommandLines(lines) == Cardinality({i \in 1..Len(lines) : lines[i].kind # "TEXT"})

\* Lines 105-121: the candidates are tried in order; one that decodes
\* replaces the best so far only when it has strictly more command lines.
RECURSIVE ReadCandidates(_, _, _)
ReadCandidates(f, e, best) ==
  IF e > Len(Encodings) THEN best
  ELSE LET next ==
             IF f[e].ok /\ CommandLines(f[e].lines) > best.max_command_lines
             THEN [found |-> TRUE,
                   max_command_lines |-> CommandLines(f[e].lines),
                   best_content |-> f[e].lines,
                   best_encoding |-> Encodings[e]]
             ELSE best
       IN ReadCandidates(f, e + 1, next)

\* Lines 100-102: no candidate chosen yet.
NoCandidate ==
  [found |-> FALSE, max_command_lines |-> 0, best_content |-> <<>>, best_encoding |-> ""]

\* Lines 97-130: read the file.  Without a best candidate parse prints an
\* error and returns (lines 123-125).
ReadFile ==
  /\ parse.pc = "read"
  /\ LET best == ReadCandidates(file, 1, NoCandidate)
     IN parse' = [parse EXCEPT !.pc = IF best.found THEN "gather" ELSE "unread",
                               !.content = best.best_content,
                               !.best_encoding = best.best_encoding,
                               !.max_command_lines = best.max_command_lines]
  /\ UNCHANGED <<file, dtx, player_vars>>

\* The table t with key k set to v.
Put(t, k, v) == [x \in DOMAIN t \cup {k} |-> IF x = k THEN v ELSE t[x]]

\* Lines 146-150, with a malformed value resetting the tempo to its default.
SetBpmOrDefault(d, value) ==
  IF value \in DOMAIN FloatOf THEN [d EXCEPT !.bpm = FloatOf[value]]
  ELSE [d EXCEPT !.bpm = 120]

\* Lines 146-150: the base tempo; ValueError leaves it as it is.
SetBpm(d, value) ==
  IF value \in DOMAIN FloatOf THEN [d EXCEPT !.bpm = FloatOf[value]] ELSE d

\* Lines 157-161: an indexed tempo.
SetBpmChange(d, id, value) ==
  IF value \in DOMAIN FloatOf
  THEN [d EXCEPT !.bpm_changes = Put(@, id, FloatOf[value])] ELSE d

\* Lines 162-169: a sample volume.
SetVolume(d, id, value) ==
  IF value \in DOMAIN IntOf
  THEN [d EXCEPT !.wav_volumes = Put(@, id, IntOf[value])] ELSE d

\* Lines 176-185: a bar length.
SetBarLength(d, bar, value) ==
  IF value \in DOMAIN FloatOf
  THEN [d EXCEPT !.bar_length_changes = Put(@, bar, FloatOf[value])] ELSE d

\* Lines 194-209: the raw events of a chip line, one per token that is not
\* "00", from token i on.
RECURSIVE ChipEvents(_, _)
ChipEvents(line, i) ==
  IF i > Len(line.tokens) THEN <<>>
  ELSE (IF line.tokens[i] # "00"
        THEN << [bar |-> line.bar, channel |-> line.channel, pos |-> i - 1,
                 total_pos |-> Len(line.tokens), val |-> line.tokens[i],
                 global_beat |-> 0, order |-> 0] >>
        ELSE <<>>)
       \o ChipEvents(line, i + 1)

\* Line 188: the channels whose chip lines are dropped.
IgnoredChannel(channel) == channel \in NON_NOTE_CHANNELS

\* Lines 133-209: one line of the file; st is the Dtx object and the raw
\* events gathered so far.
ParseLine(st, line) ==
  CASE line.kind = "BPM" /\ line.value # "" ->
         [st EXCEPT !.dtx = SetBpm(@, line.value)]
    [] line.kind = "BPMX" /\ line.value # "" ->
         [st EXCEPT !.dtx = SetBpmChange(@, line.id, line.value)]
    [] line.kind = "VOLUME" /\ line.value # "" ->
         [st EXCEPT !.dtx = SetVolume(@, line.id, line.value)]
    [] line.kind = "CHIP" /\ line.channel = "02" ->
         IF line.value # ""
         THEN [st EXCEPT !.dtx = SetBarLength(@, line.bar, line.value)]
         ELSE st
    [] line.kind = "CHIP" /\ line.channel # "02" ->
         IF IgnoredChannel(line.channel) \/ line.tokens = <<>> THEN st
         ELSE [st EXCEPT !.raw_events = @ \o ChipEvents(line, 1)]
    [] OTHER -> st

\* Lines 132-209: the lines from i on, in file order.
RECURSIVE FirstPass(_, _, _)
FirstPass(st, lines, i) ==
  IF i > Len(lines) THEN st
  ELSE FirstPass(ParseLine(st, lines[i]), lines, i + 1)

\* Lines 132-213: the first pass over the chosen content.
GatherDefinitions ==
  /\ parse.pc = "gather"
  /\ LET st == FirstPass([dtx |-> dtx, raw_events |-> <<>>], parse.content, 1)
     IN /\ dtx' = st.dtx
        /\ parse' = [parse EXCEPT !.pc = "beats", !.raw_events = st.raw_events]
  /\ UNCHANGED <<file, player_vars>>

\* ------------------------------------------------------------ Dtx.parse, second pass
\* Lines 221-223.
MaxBar(events) ==
  IF events = <<>> THEN 0
  ELSE LET bars == {events[i].bar : i \in 1..Len(events)}
       IN CHOOSE b \in bars : \A c \in bars : c <= b

\* Lines 227 and 235: bar_length_changes.get(bar, 1.0).
Multiplier(blc, bar) == IF bar \in DOMAIN blc THEN blc[bar] ELSE 1

\* Lines 225-229, with every bar four beats long.
BarStartPlain(blc, n) == 4 * n

\* Lines 225-229: the beat bar n starts at.
RECURSIVE BarStart(_, _)
BarStart(blc, n) ==
  IF n = 0 THEN 0 ELSE BarStart(blc, n - 1) + 4 * Multiplier(blc, n - 1)

\* Lines 225-229: bar_start_beats, up to the bar after the last one.
BarStartBeats(blc, max_bar) == [n \in 0..(max_bar + 1) |-> BarStart(blc, n)]

\* Lines 235-239, with the bar length left out.
EventBeatInBarPlain(e, blc) == (e.pos * 4) \div e.total_pos

\* Lines 235-239: (pos / total_pos) * beats in this bar.
EventBeatInBar(e, blc) == (e.pos * (4 * Multiplier(blc, e.bar))) \div e.total_pos

\* Lines 232-242: every event gets its global beat (and the place it had in
\* the file).
Annotate(events, blc, starts) ==
  [i \in 1..Len(events) |->
     [events[i] EXCEPT !.global_beat = starts[events[i].bar] + EventBeatInBar(events[i], blc),
                       !.order = i]]

\* Line 245: list.sort(key = global beat), a stable sort.
RECURSIVE InsertByBeat(_, _)
InsertByBeat(e, sorted) ==
  IF sorted = <<>> THEN <<e>>
  ELSE IF e.global_beat < Head(sorted).global_beat THEN <<e>> \o sorted
  ELSE <<Head(sorted)>> \o InsertByBeat(e, Tail(sorted))

RECURSIVE SortByBeat(_)
SortByBeat(events) ==
  IF events = <<>> THEN <<>>
  ELSE InsertByBeat(events[Len(events)], SortByBeat(SubSeq(events, 1, Len(events) - 1)))

\* Lines 219-245: the bar table, the global beats, the events in beat order.
AnnotateBeats ==
  /\ parse.pc = "beats"
  /\ LET blc == dtx.bar_length_changes
         starts == BarStartBeats(blc, MaxBar(parse.raw_events))
     IN parse' = [parse EXCEPT !.pc = "walk",
                               !.bar_start_beats = starts,
                               !.raw_events = SortByBeat(Annotate(@, blc, starts))]
  /\ UNCHANGED <<file, dtx, player_vars>>

\* Lines 247-250: the walk starts at time 0 with the base tempo.
WalkStart(d) ==
  [current_time_ms |-> 0,
   current_bpm |-> d.bpm,
   last_event_beat |-> 0,
   first_bgm_event_processed |-> FALSE,
   bgm_start_time_ms |-> d.bgm_start_time_ms,
   timed_notes |-> d.timed_notes,
   stamps |-> <<>>,
   raised |-> FALSE]

\* 60.0 / current_bpm, in milliseconds.
MsPerBeat(bpm) == 60000 \div bpm

\* Lines 254-256, with the tempo in force applied to the whole chart so far.
EventTimeFromStart(w, e) == e.global_beat * MsPerBeat(w.current_bpm)

\* Lines 254-256: the time of the event, from the time and beat of the last
\* one and the tempo in force before the event takes effect.
EventTime(w, e) ==
  w.current_time_ms + (e.global_beat - w.last_event_beat) * MsPerBeat(w.current_bpm)

\* Lines 266-273: the tempo after the event.
TempoAfter(bpm, e, bpm_changes) ==
  CASE e.channel = "03" -> IF e.val \in DOMAIN HexOf THEN HexOf[e.val] ELSE bpm
    [] e.channel = "08" -> IF e.val \in DOMAIN bpm_changes THEN bpm_changes[e.val] ELSE bpm
    [] OTHER -> bpm

\* Lines 261, 266, 271, with every event emitted.
EmitsAll(e) == TRUE

\* Lines 261-275: the events the walk appends to timed_notes.
Emits(e) == e.channel \notin {"01", "03", "08"}

\* Lines 261-264 without the flag: every background marker sets the offset.
BgmStartLast(w, e, t) ==
  IF e.channel = "01" THEN t ELSE w.bgm_start_time_ms

\* Lines 261-264: the first background marker the walk meets sets the
\* background start offset.
BgmStart(w, e, t) ==
  IF e.channel = "01" /\ ~w.first_bgm_event_processed THEN t
  ELSE w.bgm_start_time_ms

\* Lines 252-279: one event of the walk; the division of line 255 raises
\* ZeroDivisionError when the tempo in force is zero.
WalkEvent(w, e, bpm_changes) ==
  IF w.current_bpm = 0 THEN [w EXCEPT !.raised = TRUE]
  ELSE LET t == EventTime(w, e)
       IN [w EXCEPT
             !.current_time_ms = t,
             !.last_event_beat = e.global_beat,
             !.current_bpm = TempoAfter(@, e, bpm_changes),
             !.first_bgm_event_processed = @ \/ e.channel = "01",
             !.bgm_start_time_ms = BgmStart(w, e, t),
             !.timed_notes = IF Emits(e) THEN Append(@, <<t, e.channel, e.val>>) ELSE @,
             !.stamps = Append(@, [order |-> e.order, channel |-> e.channel,
                                   val |-> e.val, global_beat |-> e.global_beat,
                                   time |-> t])]

\* Lines 252-279: the events from i on; an exception ends the walk.
RECURSIVE Walk(_, _, _, _)
Walk(w, events, i, bpm_changes) ==
  IF i > Len(events) \/ w.raised THEN w
  ELSE Walk(WalkEvent(w, events[i], bpm_changes), events, i + 1, bpm_changes)

\* Lines 247-279: the times of the events.  An exception leaves parse with
\* the notes appended so far and goes up to main.
ResolveTimes ==
  /\ parse.pc = "walk"
  /\ LET w == Walk(WalkStart(dtx), parse.raw_events, 1, dtx.bpm_changes)
     IN /\ dtx' = [dtx EXCEPT !.bgm_start_time_ms = w.bgm_start_time_ms,
                              !.timed_notes = w.timed_notes]
        /\ parse' = [parse EXCEPT !.pc = IF w.raised THEN "raised" ELSE "sort",
                                  !.current_bpm = w.current_bpm,
                                  !.stamps = w.stamps]
  /\ UNCHANGED <<file, player_vars>>

\* Line 281, left out.
SortTuplesNone(notes) == notes

\* Line 281: list.sort() of (time, channel, value) tuples, which compares the
\* times and, for equal times, the channels; notes of one channel carry one
\* value in the charts of the model.
RECURSIVE InsertTuple(_, _)
InsertTuple(n, sorted) ==
  IF sorted = <<>> THEN <<n>>
  ELSE IF ~NoteLeq(Head(sorted), n) THEN <<n>> \o sorted
  ELSE <<Head(sorted)>> \o InsertTuple(n, Tail(sorted))

RECURSIVE SortTuples(_)
SortTuples(notes) ==
  IF notes = <<>> THEN <<>>
  ELSE InsertTuple(notes[Len(notes)], SortTuples(SubSeq(notes, 1, Len(notes) - 1)))

\* Lines 281-282: the final sort; parse returns.
SortNotes ==
  /\ parse.pc = "sort"
  /\ dtx' = [dtx EXCEPT !.timed_notes = SortTuples(@)]
  /\ parse' = [parse EXCEPT !.pc = "parsed"]
  /\ UNCHANGED <<file, player_vars>>

\* ------------------------------------------------------------ main
\* Lines 856-858: parse has returned, after the final sort or after the read
\* error of line 124; main makes the player of the chart and calls play.
MainPlay ==
  /\ parse.pc \in {"parsed", "unread"}
  /\ parse' = [parse EXCEPT !.pc = "play"]
  /\ UNCHANGED <<file, dtx, player_vars>>

\* Lines 860-865: an exception of parse ends the program with status 1.
MainExit ==
  /\ parse.pc = "raised"
  /\ parse' = [parse EXCEPT !.pc = "exit"]
  /\ UNCHANGED <<file, dtx, player_vars>>

NextParse ==
  \/ ReadFile
  \/ GatherDefinitions
  \/ AnnotateBeats
  \/ ResolveTimes
  \/ SortNotes
  \/ MainPlay
  \/ MainExit

\* The player before it is made: no chart, nothing loaded, the loop not begun.
PlayerNotMade ==
  /\ notes_to_play = <<>>
  /\ sounds = {}
  /\ bgm_path = FALSE
  /\ bgm_start_time_ms = 0
  /\ song_duration_ms = 0
  /\ note_index = 0
  /\ time_offset_ms = 0
  /\ clock_is_audio_driven = FALSE
  /\ start_ticks = 0
  /\ current_time_ms = 0
  /\ running = FALSE
  /\ pc = "not made"
  /\ active_poly_sounds = <<>>
  /\ active_choke_sounds = <<>>
  /\ bgm_volume = 7
  /\ se_volume = 10
  /\ sound_volume = <<>>
  /\ mixer = [h \in MixerChannels |-> Idle]
  /\ ticks = 0
  /\ music_busy = FALSE
  /\ music_pos = 0
  /\ vol_keys = 0
  /\ finished = FALSE
  /\ seeks = <<>>
  /\ popped = <<>>
  /\ faded = {}

\* main, lines 853-854: the Dtx object is made and parse is called on file f.
InitParseWith(f) ==
  /\ file = f
  /\ dtx = DtxNew
  /\ parse = Frame("read")
  /\ PlayerNotMade

\* The parser over the ASCII files of up to MaxLines lines.
InitParse ==
  \E n \in 0..MaxLines : \E lines \in Texts(LinePool, n) :
    InitParseWith(AsciiFile(lines))

SpecParse == InitParse /\ [][NextParse]_vars

\* The parser over the files of up to MaxReadLines lines under every encoding
\* of the model, and over the file no candidate decodes.
InitRead ==
  \/ InitParseWith(Undecodable)
  \/ \E n \in 0..MaxReadLines : \E lines \in Texts(LinePool, n) :
       \E f \in ReadFiles(lines) : InitParseWith(f)

SpecRead == InitRead /\ [][NextParse]_vars

\* ------------------------------------------------------------ properties
\* The step is one turn of the dispatch loop (a note is popped).
Pops == pc = "dispatch" /\ popped' = Append(popped, note_index)

\* The step pops a note whose sample is loaded.
PopsLoaded ==
  /\ Pops
  /\ note_index < Len(notes_to_play)
  /\ notes_to_play[note_index + 1][3] \in sounds

\* The channel of the note under the cursor.
CursorChannel == notes_to_play[note_index + 1][2]

\* The polyphony entries of channel c.
Tracked(c) ==
  IF c \in DOMAIN active_poly_sounds THEN active_poly_sounds[c] ELSE <<>>

TrackedAfter(c) ==
  IF c \in DOMAIN active_poly_sounds' THEN active_poly_sounds'[c] ELSE <<>>

Range(f) == {f[i] : i \in DOMAIN f}

\* Every tracked voice of channel c is still sounding on the mixer channel
\* it was started on.
NoneFinished(c) ==
  \A e \in Range(Tracked(c)) : mixer[e[1]].busy /\ mixer[e[1]].channel = c

\* The tracked entry of channel c whose voice was started first.
OldestEntry(c) ==
  CHOOSE e \in Range(Tracked(c)) :
    \A d \in Range(Tracked(c)) :
      e[2] <= d[2] /\ mixer[e[1]].note <= mixer[d[1]].note

\* The case of C1: the limit is reached, no tracked voice has finished, and
\* one more note with a loaded sample is fired on the channel.
StealCase ==
  /\ PopsLoaded
  /\ Len(Tracked(CursorChannel)) = POLYPHONY_LIMIT
  /\ NoneFinished(CursorChannel)

\* The voice started first is the one faded out and evicted; the others stay.
OldestStolen ==
  LET c == CursorChannel
      old == OldestEntry(c)
  IN /\ \E f \in faded' : f.why = "steal" /\ f.h = old[1]
     /\ \A f \in faded' : f.why = "steal" => f.h = old[1]
     /\ mixer'[old[1]].fading
     /\ old \notin Range(TrackedAfter(c))
     /\ \A e \in Range(Tracked(c)) : e # old => e \in Range(TrackedAfter(c))

\* C1 as stated: voice stealing leaves exactly POLYPHONY_LIMIT tracked voices
\* and evicts the voice started first.
C1_AsStated ==
  [][StealCase =>
       /\ OldestStolen
       /\ Len(TrackedAfter(CursorChannel)) = POLYPHONY_LIMIT]_vars

\* What the code does in the case of C1: it evicts and fades out the voice
\* started first, then asks the mixer for a channel; the table ends with
\* POLYPHONY_LIMIT voices when the mixer has a free channel for the new voice
\* and with POLYPHONY_LIMIT - 1 when Sound.play returns None (lines 755-757):
\* the oldest voice is cut for a note that never sounds.
C1_VoiceStealing ==
  [][StealCase =>
       /\ OldestStolen
       /\ Len(TrackedAfter(CursorChannel)) =
            IF \E h \in MixerChannels : ~mixer[h].busy
            THEN POLYPHONY_LIMIT ELSE POLYPHONY_LIMIT - 1]_vars

\* A voice has just been stolen and the channel tracks POLYPHONY_LIMIT voices.
C1_Witness ==
  \E f \in faded :
    /\ f.why = "steal"
    /\ f.channel \in DOMAIN active_poly_sounds
    /\ Len(active_poly_sounds[f.channel]) = POLYPHONY_LIMIT
    /\ mixer[f.h].fading

\* C2: a choker note with a loaded sample fades out the active voice the
\* choke table holds for the choked channel and removes the entry; with no
\* entry for the choked channel it issues no choke fade-out and leaves the
\* choke table as it is.
C2_Choke ==
  [][PopsLoaded /\ CursorChannel \in DOMAIN CHOKE_MAP =>
       /\ \A c \in CHOKE_MAP[CursorChannel] :
            (/\ c \in DOMAIN active_choke_sounds
             /\ mixer[active_choke_sounds[c]].busy
             /\ mixer[active_choke_sounds[c]].channel = c)
            => /\ mixer'[active_choke_sounds[c]].busy
               /\ mixer'[active_choke_sounds[c]].fading
               /\ mixer'[active_choke_sounds[c]].note = mixer[active_choke_sounds[c]].note
               /\ c \notin DOMAIN active_choke_sounds'
               /\ \E f \in faded' : f.why = "choke" /\ f.h = active_choke_sounds[c]
       /\ (\A c \in CHOKE_MAP[CursorChannel] : c \notin DOMAIN active_choke_sounds)
            => /\ active_choke_sounds' = active_choke_sounds
               /\ \A f \in faded' : f.why # "choke"]_vars

\* The open hi-hat voice has just been choked.
C2_Witness ==
  \E f \in faded :
    /\ f.why = "choke"
    /\ f.channel = "18"
    /\ mixer[f.h].fading
    /\ "18" \notin DOMAIN active_choke_sounds

\* The first index whose note is at or after time t, by definition.
FirstAtOrAfter(t) ==
  LET at == {i \in 1..Len(notes_to_play) : notes_to_play[i][1] >= t}
  IN IF at = {} THEN Len(notes_to_play)
     ELSE (CHOOSE i \in at : \A j \in at : i <= j) - 1

\* The cursor a dispatch at time t leaves: the notes at or before t are popped.
PoppedBy(t) == Cardinality({i \in 1..Len(notes_to_play) : notes_to_play[i][1] <= t})

\* Two seeks in a row, the second one back to the time before the first.
RoundTrip == Len(seeks) = 2 /\ seeks[2].target = seeks[1].cur

C4_DispatchComplete ==
  /\ [](\A i \in 1..Len(popped) :
          /\ popped[i] = popped[1] + (i - 1)
          /\ popped[i] < note_index)
  /\ [][pc = "dispatch" /\ pc' # "dispatch" =>
          /\ \/ note_index = Len(notes_to_play)
             \/ notes_to_play[note_index + 1][1] > current_time_ms
          /\ \A i \in 1..Len(notes_to_play) :
               notes_to_play[i][1] <= current_time_ms => i <= note_index
          /\ popped # <<>> => popped[Len(popped)] = note_index - 1]_vars

\* A dispatch that has popped several notes stops at a note not yet due.
C4_Witness ==
  /\ pc = "dispatch"
  /\ Len(popped) >= 2
  /\ note_index < Len(notes_to_play)
  /\ notes_to_play[note_index + 1][1] > current_time_ms

\* C5: a step that is no seek never moves the cursor backwards, and a pop
\* takes the note under the cursor and moves the cursor past it, so no index
\* is popped twice without a seek.
C5_CursorMonotonic ==
  [][seeks' = <<>> =>
       /\ note_index' >= note_index
       /\ (popped' # popped /\ popped' # <<>>) =>
            /\ popped' = Append(popped, note_index)
            /\ note_index' = note_index + 1]_vars

\* The second of two notes has been popped by a tick, in a run that had a
\* volume command.
C5_Witness ==
  /\ vol_keys < MaxVolKeys
  /\ Len(popped) >= 1
  /\ popped[Len(popped)] = 1
  /\ note_index = 2

\* C6 as stated: at the demotion the timer continues at the last audio time.
C6_AsStated ==
  [][clock_is_audio_driven /\ ~clock_is_audio_driven' =>
       /\ current_time_ms' = music_pos + time_offset_ms
       /\ start_ticks' = ticks - (music_pos + time_offset_ms)]_vars

\* C7: after a seek the cursor is the smallest index whose note is at or after
\* the clamped target, the sequence length when there is none.
C7_SeekCursor ==
  seeks # <<>> => note_index = FirstAtOrAfter(seeks[Len(seeks)].target)

\* A seek has put the cursor between two notes.
C7_Witness ==
  /\ seeks # <<>>
  /\ note_index > 0
  /\ note_index < Len(notes_to_play)
  /\ notes_to_play[note_index][1] < seeks[Len(seeks)].target

\* C8: right after a seek both tables are empty and no voice sounds.
C8_SeekResetsVoices ==
  seeks # <<>> =>
    /\ active_poly_sounds = <<>>
    /\ active_choke_sounds = <<>>
    /\ \A h \in MixerChannels : ~mixer[h].busy

\* A seek that found voices sounding and both tables filled.
C8_Witness ==
  /\ seeks # <<>>
  /\ seeks[Len(seeks)].voices # {}
  /\ seeks[Len(seeks)].poly # {}
  /\ seeks[Len(seeks)].choke # {}

\* The total duration of the claim: the last note's time plus the pad, 0 for
\* the empty sequence (line 578).
TotalDuration ==
  IF notes_to_play = <<>> THEN 0
  ELSE notes_to_play[Len(notes_to_play)][1] + PAD_MS

\* C9 as stated: the target of every seek lies in [0, total duration].
C9_AsStated ==
  seeks # <<>> =>
    /\ seeks[Len(seeks)].target >= 0
    /\ seeks[Len(seeks)].target <= TotalDuration

\* C9 amended: the target of every seek is at least 0, and at most the last
\* note's time + 3000 when the chart has a note; it is the time the timer is
\* anchored to and, when audio-driven, the new time offset.
C9_SeekClamped ==
  seeks # <<>> =>
    LET s == seeks[Len(seeks)] IN
    /\ s.target >= 0
    /\ notes_to_play # <<>> => s.target <= TotalDuration
    /\ \/ s.target = s.cur + JUMP_AMOUNT_MS
       \/ s.target = s.cur - JUMP_AMOUNT_MS
       \/ s.target = 0 /\ s.cur - JUMP_AMOUNT_MS < 0
       \/ s.target = TotalDuration /\ s.cur + JUMP_AMOUNT_MS > TotalDuration
       \/ s.target = TotalDuration /\ s.cur - JUMP_AMOUNT_MS > TotalDuration
    /\ start_ticks = ticks - s.target
    /\ clock_is_audio_driven => time_offset_ms = s.target

\* A jump to the right that the upper clamp cut short.
C9_Witness ==
  /\ seeks # <<>>
  /\ notes_to_play # <<>>
  /\ seeks[Len(seeks)].target = TotalDuration
  /\ seeks[Len(seeks)].cur < TotalDuration
  /\ seeks[Len(seeks)].cur + JUMP_AMOUNT_MS > TotalDuration

\* C10: the finish check ends the loop as finished exactly when the cursor is
\* at or past the end and the background track is not playing.
C10_EndOfChart ==
  /\ [](finished => note_index >= Len(notes_to_play) /\ ~music_busy)
  /\ [][pc = "dispatch" /\ pc' # "dispatch" =>
          (finished' <=> (note_index >= Len(notes_to_play) /\ ~music_busy))]_vars

\* Playback of a chart with notes and a background track has finished.
C10_Witness ==
  /\ finished
  /\ pc = "exited"
  /\ bgm_path
  /\ Len(notes_to_play) = 2
  /\ popped = <<>>

\* ------------------------------------------------------------ properties of the parser
\* Dtx.parse has returned after its final sort.
Parsed == parse.pc = "parsed"

\* The stamps of the events the walk emitted as notes.
EmittedStamps ==
  SelectSeq(parse.stamps, LAMBDA s : s.channel \notin {"01", "03", "08"})

\* Earlier time first and, for equal times, earlier in the file first.
StampBefore(a, b) == a.time < b.time \/ (a.time = b.time /\ a.order < b.order)

RECURSIVE InsertStamp(_, _)
InsertStamp(s, sorted) ==
  IF sorted = <<>> THEN <<s>>
  ELSE IF StampBefore(s, Head(sorted)) THEN <<s>> \o sorted
  ELSE <<Head(sorted)>> \o InsertStamp(s, Tail(sorted))

RECURSIVE SortStamps(_)
SortStamps(stamps) ==
  IF stamps = <<>> THEN <<>>
  ELSE InsertStamp(stamps[Len(stamps)], SortStamps(SubSeq(stamps, 1, Len(stamps) - 1)))

\* The emitted notes by ascending time, notes of equal time in file order.
ParseStableNotes ==
  LET sorted == SortStamps(EmittedStamps)
  IN [i \in 1..Len(sorted) |-> <<sorted[i].time, sorted[i].channel, sorted[i].val>>]

\* C11 as stated: in the final timed-note sequence notes of equal time stand
\* in the order in which their raw events were met in the file, whatever
\* their channels and sample ids.
C11_AsStated == Parsed => dtx.timed_notes = ParseStableNotes

\* C12: once parse has returned, the timed-note sequence is sorted by
\* non-decreasing time, with tempo changes and bar-length overrides too.
C12_SortedByTime ==
  parse.pc \in {"parsed", "play"} =>
    \A i \in 1..(Len(dtx.timed_notes) - 1) :
      dtx.timed_notes[i][1] <= dtx.timed_notes[i + 1][1]

\* A chart with a bar-length override and a tempo change is parsed to notes
\* of different times.
C12_Witness ==
  /\ Parsed
  /\ dtx.bar_length_changes # <<>>
  /\ \E i \in 1..Len(parse.stamps) : parse.stamps[i].channel \in {"03", "08"}
  /\ Len(dtx.timed_notes) >= 2
  /\ dtx.timed_notes[1][1] < dtx.timed_notes[Len(dtx.timed_notes)][1]

\* C13: no timed note is on a control channel or on a non-note channel.
C13_NoControlNotes ==
  \A i \in 1..Len(dtx.timed_notes) :
    dtx.timed_notes[i][2] \notin CONTROL_CHANNELS \cup NON_NOTE_CHANNELS

\* A chart with a background marker and a line of a non-note channel is
\* parsed, and a note of it is emitted.
C13_Witness ==
  /\ Parsed
  /\ dtx.timed_notes # <<>>
  /\ \E i \in 1..Len(parse.stamps) : parse.stamps[i].channel = "01"
  /\ \E i \in 1..Len(parse.content) :
       parse.content[i].kind = "CHIP" /\ parse.content[i].channel \in NON_NOTE_CHANNELS

\* Lines 132-279 as one function of the decoded lines: the state of the walk
\* at its end.
ParseText(lines) ==
  LET st == FirstPass([dtx |-> DtxNew, raw_events |-> <<>>], lines, 1)
      blc == st.dtx.bar_length_changes
      starts == BarStartBeats(blc, MaxBar(st.raw_events))
      events == SortByBeat(Annotate(st.raw_events, blc, starts))
  IN Walk(WalkStart(st.dtx), events, 1, st.dtx.bpm_changes)

\* The tempo-change lines of the parsed chart, by their place in the file.
TempoLines ==
  {k \in 1..Len(parse.content) :
     /\ parse.content[k].kind = "CHIP"
     /\ parse.content[k].channel \in {"03", "08"}}

\* The global beat of the tempo change of line k (one event a line).
TempoBeat(k) ==
  LET line == parse.content[k]
      i == CHOOSE j \in 1..Len(line.tokens) : line.tokens[j] # "00"
  IN BarStart(dtx.bar_length_changes, line.bar)
       + ((i - 1) * 4 * Multiplier(dtx.bar_length_changes, line.bar)) \div Len(line.tokens)

\* The chart without line k.
WithoutLine(k) ==
  SubSeq(parse.content, 1, k - 1) \o SubSeq(parse.content, k + 1, Len(parse.content))

\* The chart with another tempo at the place of the tempo change of line k.
OtherTempos(k) ==
  LET line == parse.content[k]
  IN IF line.channel # "03" THEN {}
     ELSE {[parse.content EXCEPT ![k].tokens = <<"00", t>>] : t \in {"3C", "F0"}}

\* The charts that differ from the parsed one in the tempo change of line k.
TempoVariants(k) == {WithoutLine(k)} \cup OtherTempos(k)

\* What the walk gave the events up to beat b, the tempo changes at b aside.
StampsUpTo(stamps, b) ==
  {[channel |-> stamps[i].channel, val |-> stamps[i].val,
    global_beat |-> stamps[i].global_beat, time |-> stamps[i].time] :
     i \in {j \in 1..Len(stamps) :
              /\ stamps[j].global_beat <= b
              /\ ~(stamps[j].global_beat = b /\ stamps[j].channel \in {"03", "08"})}}

\* The times the walk gave the notes after beat b.
TimesAfter(stamps, b) ==
  {[channel |-> stamps[i].channel, global_beat |-> stamps[i].global_beat,
    time |-> stamps[i].time] :
     i \in {j \in 1..Len(stamps) : stamps[j].global_beat > b}}

\* C14: a chart that differs from the parsed one only in a tempo change at
\* beat b (the change is absent, or sets another tempo) gives every event at
\* a beat <= b, one at exactly b included, the time the parsed chart gives
\* it, whenever both charts are parsed to the end.
C14_NotRetroactive ==
  Parsed =>
    \A k \in TempoLines : \A other \in TempoVariants(k) :
      LET w == ParseText(other)
      IN ~w.raised =>
           StampsUpTo(w.stamps, TempoBeat(k)) = StampsUpTo(parse.stamps, TempoBeat(k))

\* A tempo change at a beat that has a note, which is processed after the
\* change, and a later note whose time the change moves.
C14_Witness ==
  /\ Parsed
  /\ \E k \in TempoLines :
       LET w == ParseText(WithoutLine(k))
           b == TempoBeat(k)
       IN /\ ~w.raised
          /\ \E i, j \in 1..Len(parse.stamps) :
               /\ i < j
               /\ parse.stamps[i].channel \in {"03", "08"}
               /\ parse.stamps[i].global_beat = b
               /\ parse.stamps[j].channel \notin {"01", "03", "08"}
               /\ parse.stamps[j].global_beat = b
          /\ TimesAfter(w.stamps, b) # TimesAfter(parse.stamps, b)

\* The multiplier of bar n by the bar-length table of the chart, 1 by default.
MultiplierOf(n) ==
  IF n \in DOMAIN dtx.bar_length_changes THEN dtx.bar_length_changes[n] ELSE 1

\* C15: with positive multipliers bar 0 starts at beat 0, bar n + 1 starts
\* 4 x multiplier(n) beats after bar n, and the bar starts are strictly
\* increasing.
C15_BarStarts ==
  LET starts == parse.bar_start_beats
  IN (/\ DOMAIN starts # {}
      /\ \A n \in DOMAIN dtx.bar_length_changes : dtx.bar_length_changes[n] > 0)
     => /\ 0 \in DOMAIN starts
        /\ starts[0] = 0
        /\ \A n \in DOMAIN starts :
             n > 0 => /\ n - 1 \in DOMAIN starts
                      /\ starts[n] = starts[n - 1] + 4 * MultiplierOf(n - 1)
                      /\ starts[n] > starts[n - 1]

\* The bar table of a chart of two bars whose first bar is twice as long.
C15_Witness ==
  /\ parse.pc = "walk"
  /\ DOMAIN parse.bar_start_beats = 0..2
  /\ 0 \in DOMAIN dtx.bar_length_changes
  /\ dtx.bar_length_changes[0] = 2
  /\ parse.bar_start_beats[1] = 8
  /\ parse.bar_start_beats[2] = 12

\* The chart has no tempo-change event.
NoTempoChange ==
  \A i \in 1..Len(parse.raw_events) : parse.raw_events[i].channel \notin {"03", "08"}

\* C16: without tempo changes and with base tempo B, the note at slot i of n
\* in bar k gets the time (barStart(k) + (i/n) x 4 x multiplier(k)) x 60000/B
\* and is in the timed-note sequence with it; one standard bar of 4 tokens
\* at 120 BPM gives notes at 0, 500, 1000 and 1500 ms.
C16_NoteTime ==
  (Parsed /\ NoTempoChange) =>
    /\ \A j \in 1..Len(parse.stamps) :
         LET s == parse.stamps[j]
             e == CHOOSE r \in {parse.raw_events[i] : i \in 1..Len(parse.raw_events)} :
                    r.order = s.order
         IN /\ s.time * dtx.bpm * e.total_pos =
                 (parse.bar_start_beats[e.bar] * e.total_pos
                    + e.pos * 4 * MultiplierOf(e.bar)) * 60000
            /\ s.channel \notin {"01", "03", "08"} =>
                 \E i \in 1..Len(dtx.timed_notes) :
                   dtx.timed_notes[i] = <<s.time, s.channel, s.val>>
    /\ Len(dtx.timed_notes) = Len(EmittedStamps)
    /\ parse.content = <<ChipLine(0, "11", <<"0A", "0A", "0A", "0A">>)>> =>
         dtx.timed_notes = <<<<0, "11", "0A">>, <<500, "11", "0A">>,
                             <<1000, "11", "0A">>, <<1500, "11", "0A">>>>

\* A note in the second bar of a chart whose first bar is twice as long, at
\* 240 BPM: 8 beats of 250 ms.
C16_Witness ==
  /\ Parsed
  /\ NoTempoChange
  /\ dtx.bpm = 240
  /\ 0 \in DOMAIN dtx.bar_length_changes
  /\ dtx.bar_length_changes[0] = 2
  /\ dtx.timed_notes = <<<<2000, "11", "0A">>>>

\* The candidates that decode the file.
Decodable == {e \in 1..Len(Encodings) : file[e].ok}

\* What the code does in the case of C17: when a candidate that decodes has a
\* command line, the content is the lines of the first candidate with the
\* most command lines.
C17_MostCommandLines ==
  (/\ parse.pc # "read"
   /\ \E e \in Decodable : CommandLines(file[e].lines) > 0)
  => /\ parse.pc # "unread"
     /\ \E e \in Decodable :
          /\ parse.content = file[e].lines
          /\ parse.best_encoding = Encodings[e]
          /\ \A o \in Decodable :
               /\ CommandLines(file[o].lines) <= CommandLines(file[e].lines)
               /\ o < e => CommandLines(file[o].lines) < CommandLines(file[e].lines)

\* C17: once the file is read, the parser uses the decoded lines of a
\* candidate that decodes and whose count of command lines is the greatest
\* of the candidates that decode.
C17_AsStated ==
  (parse.pc # "read" /\ Decodable # {})
  => /\ parse.pc # "unread"
     /\ \E e \in Decodable :
          /\ parse.content = file[e].lines
          /\ \A o \in Decodable :
               CommandLines(file[o].lines) <= CommandLines(file[e].lines)

\* A later candidate with more command lines is chosen over an earlier one
\* that decodes.
C17_LaterCandidate ==
  /\ parse.pc = "gather"
  /\ file[1].ok
  /\ parse.best_encoding = "utf-16-le"
  /\ parse.max_command_lines = 2
  /\ CommandLines(file[1].lines) = 1

\* C18: when no candidate decodes the file the program does not go on to
\* make the player of the default chart.
C18_AsStated == Decodable = {} => parse.pc # "play"

\* Timing resolution is over and the tempo it ended with, the base tempo or
\* the tempo of the last tempo change it met, is zero.
ZeroTempo ==
  /\ parse.pc \in {"sort", "parsed", "raised", "exit"}
  /\ parse.current_bpm = 0

\* C19: a zero tempo, of the base tempo line or of a tempo-change event, ends
\* timing resolution in an error; the chart is never parsed successfully.
C19_AsStated == ZeroTempo => parse.pc \in {"raised", "exit"}

\* The lines of the content that set the field of the given kind, id and bar
\* with a value that parses as a number.
ValidLines(kind, id, bar) ==
  {i \in 1..Len(parse.content) :
     LET l == parse.content[i]
     IN CASE kind = "BPM" -> l.kind = "BPM" /\ l.value \in DOMAIN FloatOf
          [] kind = "BPMX" -> l.kind = "BPMX" /\ l.id = id /\ l.value \in DOMAIN FloatOf
          [] kind = "VOLUME" -> l.kind = "VOLUME" /\ l.id = id /\ l.value \in DOMAIN IntOf
          [] OTHER -> /\ l.kind = "CHIP" /\ l.channel = "02" /\ l.bar = bar
                      /\ l.value \in DOMAIN FloatOf}

\* The value of the last line of a non-empty set of lines.
LastValue(lines) ==
  parse.content[CHOOSE i \in lines : \A j \in lines : j <= i].value

\* The table entry t[k] is the number of the last valid line, or absent when
\* no line is valid.
EntryFrom(t, k, lines, numbers) ==
  IF lines = {} THEN k \notin DOMAIN t
  ELSE k \in DOMAIN t /\ t[k] = numbers[LastValue(lines)]

\* C20: after the first pass the base tempo, every indexed tempo, every
\* sample volume and every bar length is the value of the last line for it
\* that parses as a number (the default when there is none), whatever
\* malformed lines the file holds, and every chip of every line, before or
\* after a malformed line, is among the raw events.
C20_MalformedSkipped ==
  parse.pc = "beats" =>
    LET c == parse.content
        all == 1..Len(c)
    IN /\ dtx.bpm = IF ValidLines("BPM", "", 0) = {} THEN 120
                     ELSE FloatOf[LastValue(ValidLines("BPM", "", 0))]
       /\ \A id \in {c[i].id : i \in {j \in all : c[j].kind = "BPMX"}} :
            EntryFrom(dtx.bpm_changes, id, ValidLines("BPMX", id, 0), FloatOf)
       /\ \A id \in {c[i].id : i \in {j \in all : c[j].kind = "VOLUME"}} :
            EntryFrom(dtx.wav_volumes, id, ValidLines("VOLUME", id, 0), IntOf)
       /\ \A bar \in {c[i].bar : i \in {j \in all : c[j].kind = "CHIP" /\ c[j].channel = "02"}} :
            EntryFrom(dtx.bar_length_changes, bar, ValidLines("CHIP", "", bar), FloatOf)
       /\ \A i \in all :
            (c[i].kind = "CHIP" /\ c[i].channel # "02" /\ c[i].channel \notin NON_NOTE_CHANNELS)
            => \A t \in 1..Len(c[i].tokens) :
                 c[i].tokens[t] # "00" =>
                   \E k \in 1..Len(parse.raw_events) :
                     LET ev == parse.raw_events[k]
                     IN /\ ev.bar = c[i].bar
                        /\ ev.channel = c[i].channel
                        /\ ev.pos = t - 1
                        /\ ev.total_pos = Len(c[i].tokens)
                        /\ ev.val = c[i].tokens[t]

\* A base tempo, then a malformed base tempo, then a chip line: the tempo is
\* kept and the chip is gathered.
C20_Witness ==
  /\ parse.pc = "beats"
  /\ parse.content = <<BpmLine("240"), BpmLine("abc"), ChipLine(0, "12", <<"0B">>)>>
  /\ dtx.bpm = 240
  /\ Len(parse.raw_events) = 1

\* ------------------------------------------------------------ properties of the volumes
\* C21: the background-track volume and the sample-effect master volume lie
\* in [0, 1] (0 to 10 tenths) in every state, whatever volume keys were
\* pressed.  The floats of the code are an ulp off the tenths (0.7 + 0.1 +
\* 0.1 + 0.1 is 0.9999999999999999); min and max are applied to the sum, so
\* the bounds do not depend on it.
C21_VolumeBounds ==
  /\ bgm_volume >= 0 /\ bgm_volume <= 10
  /\ se_volume >= 0 /\ se_volume <= 10

\* The background volume was taken from 0.7 down to 0 by seven presses and
\* the eighth press was clamped.
C21_Witness ==
  /\ bgm_volume = 0
  /\ se_volume = 10
  /\ vol_keys = 0

\* The voice on mixer channel h before the step is still on it after the step.
SameVoice(h) ==
  /\ mixer[h].busy
  /\ mixer'[h].busy
  /\ mixer'[h].note = mixer[h].note
  /\ mixer'[h].wav = mixer[h].wav

\* C22: no step alters the playback volume of a voice that was started
\* before it, a note of the same sample fired after a change of the
\* sample-effect master volume included.
C22_AsStated ==
  [][\A h \in MixerChannels :
       SameVoice(h) =>
         PlaybackVolume(mixer', sound_volume', h) = PlaybackVolume(mixer, sound_volume, h)]_vars

\* What the code does in the case of C22: a volume key by itself leaves the
\* volume of every Sound object, and so of every voice, as it is; the volume
\* of the voices of a sample changes when the next note of the sample fires.
C22_KeyAlone ==
  [][se_volume' # se_volume => sound_volume' = sound_volume /\ mixer' = mixer]_vars

\* ------------------------------------------------------------ properties of the voice tables
\* C23: a choker note with a loaded sample fades out every voice that was
\* started by a note on a channel it chokes and is still sounding.
C23_AsStated ==
  [][(PopsLoaded /\ CursorChannel \in DOMAIN CHOKE_MAP) =>
       \A h \in MixerChannels :
         (mixer[h].busy /\ mixer[h].channel \in CHOKE_MAP[CursorChannel])
         => mixer'[h].busy /\ mixer'[h].fading]_vars

\* C28: a voice faded out through the choke table was started by a note on
\* a channel the fired note chokes, and a voice faded out by voice stealing
\* was started by a note on the channel of the fired note.
C28_AsStated ==
  [][PopsLoaded =>
       \A f \in faded' :
         /\ f.why = "choke" => f.channel \in CHOKE_MAP[CursorChannel]
         /\ f.why = "steal" => f.channel = CursorChannel]_vars

\* ------------------------------------------------------------ properties of the clock
\* C24: the clock is audio-driven only with a background track loaded, and a
\* timer-driven clock stays timer-driven over every step, so the clock goes
\* from audio-driven to timer-driven at most once.
C24_ClockMode ==
  /\ [](clock_is_audio_driven => bgm_path)
  /\ [][~clock_is_audio_driven => ~clock_is_audio_driven']_vars

\* A track is loaded, the clock is timer-driven, and a seek was executed
\* after wall-clock time had passed, in a run with a volume command.  (A
\* clock demoted by UpdateClock is at song_duration_ms, so every note is
\* popped and the loop ends in the turn of the demotion: the seeks of a
\* timer-driven clock with a track are those after a failed start.)
C24_Witness ==
  /\ ~clock_is_audio_driven
  /\ bgm_path
  /\ ticks > 0
  /\ seeks # <<>>
  /\ vol_keys < MaxVolKeys

\* ------------------------------------------------------------ properties of the dispatch
\* The step pops a note whose sample is not loaded.
PopsMissing ==
  /\ Pops
  /\ note_index < Len(notes_to_play)
  /\ notes_to_play[note_index + 1][3] \notin sounds

\* C25: firing a due note whose sample is not loaded moves the cursor by one
\* and changes nothing else: no voice is started, no fade-out is issued, the
\* polyphony and choke tables, the volumes of the Sound objects, the clock
\* and the volumes stay as they are.
C25_MissingSample ==
  [][PopsMissing =>
       /\ note_index' = note_index + 1
       /\ faded' = {}
       /\ UNCHANGED <<active_poly_sounds, active_choke_sounds, mixer, sound_volume>>
       /\ UNCHANGED <<chart_vars, clock_vars, volume_vars, music_vars,
                      running, pc, ticks, finished>>]_vars

\* A pedal hi-hat note, a choker whose sample is missing, was fired while the
\* open hi-hat voice of the choke table was sounding: the voice sounds on.
C25_Witness ==
  /\ pc = "dispatch"
  /\ popped # <<>>
  /\ notes_to_play[popped[Len(popped)] + 1][2] = "1B"
  /\ notes_to_play[popped[Len(popped)] + 1][3] \notin sounds
  /\ "18" \in DOMAIN active_choke_sounds
  /\ mixer[active_choke_sounds["18"]].busy
  /\ ~mixer[active_choke_sounds["18"]].fading
  /\ faded = {}

\* ------------------------------------------------------------ properties of the background marker
\* The stamps of the background markers.
Markers == {i \in 1..Len(parse.stamps) : parse.stamps[i].channel = "01"}

\* C26: when the walk has ended, the background start offset is the time the
\* walk gave the background marker of the least global beat, and 0 when the
\* chart has no background marker.
C26_BgmStart ==
  parse.pc \in {"sort", "parsed"} =>
    IF Markers = {} THEN dtx.bgm_start_time_ms = 0
    ELSE \E i \in Markers :
           /\ \A j \in Markers :
                parse.stamps[i].global_beat <= parse.stamps[j].global_beat
           /\ dtx.bgm_start_time_ms = parse.stamps[i].time

\* A tempo change at beat 2, the first marker at beat 3 and a later marker
\* at beat 4: the offset is 2 beats of 500 ms and 1 beat of 250 ms.
C26_Witness ==
  /\ Parsed
  /\ dtx.bgm_start_time_ms = 1250
  /\ \E i \in Markers : parse.stamps[i].time = 1500
  /\ \E i \in 1..Len(parse.stamps) :
       parse.stamps[i].channel = "03" /\ parse.stamps[i].global_beat = 2

\* ------------------------------------------------------------ properties of the polyphony table
\* C27: the polyphony table holds at most POLYPHONY_LIMIT voices for every
\* channel in every state (the table changes only when a note is fired).
C27_PolyphonyBound ==
  \A c \in DOMAIN active_poly_sounds : Len(active_poly_sounds[c]) <= POLYPHONY_LIMIT

\* Six notes of a roll were fired, the table of the channel is full and one
\* of the voices it tracks has ended by itself.
C27_Witness ==
  /\ note_index = MaxRoll
  /\ \E c \in DOMAIN active_poly_sounds :
       /\ Len(active_poly_sounds[c]) = POLYPHONY_LIMIT
       /\ \E i \in 1..POLYPHONY_LIMIT : ~mixer[active_poly_sounds[c][i][1]].busy

\* ------------------------------------------------------------ properties of the seek commands
\* C29: whenever the event handler runs at a current time of at least 0, a
\* seek-left command is executed as a seek (the cursor, the timer anchor and
\* the tables are set anew); at no current time is it ignored.
C29_AsStated ==
  (pc = "events" /\ HandlerTime >= 0) =>
    ENABLED (KeyDown("LEFT") /\ seeks' # <<>>)

\* Away from the one current time whose target equals the "no jump" value, a
\* seek-left command is always executed.
C29_AwayFromSentinel ==
  (pc = "events" /\ HandlerTime >= 0 /\ HandlerTime - JUMP_AMOUNT_MS # NO_JUMP) =>
    ENABLED (KeyDown("LEFT") /\ seeks' # <<>>)

\* ------------------------------------------------------------ termination
\* Every note is popped and the finish check has ended the loop.
Finished == finished /\ note_index = Len(notes_to_play)

\* A QUIT event or the escape key has been handled (lines 610-613): the only
\* way for the handler to leave running false.
QuitSeen == pc = "events" /\ ~running

\* C30 as stated: if the timer advances, the background track stops and from
\* some point on no seek is executed, every note is eventually popped and the
\* scheduler reaches Finished.
C30_AsStated == <>[](seeks = <<>>) => <>Finished

\* C30: if the timer advances, the background track stops, from some point
\* on no seek is executed and the user never quits, every note is eventually
\* popped and the scheduler reaches Finished.
C30_Terminates == ([]~QuitSeen /\ <>[](seeks = <<>>)) => <>Finished

\* Finished after the track played, was repositioned by a seek and stopped,
\* on a chart of MaxNotes notes.
C30_Witness ==
  /\ Finished
  /\ pc = "exited"
  /\ Len(notes_to_play) = MaxNotes
  /\ bgm_path
  /\ ~music_busy
  /\ music_pos > 0
  /\ time_offset_ms # bgm_start_time_ms
  /\ ticks > 0

\* Without the premise on the seeks: playback need not end.
C30_SeekingForever == []~QuitSeen => <>Finished

====
